---------------------------- MODULE Spec2Model ----------------------------
(***************************************************************************)
(* A model of src/main.py (GTFS feed analyzer): the feed loader, the       *)
(* segment aggregation (extract_segments), the route renderer              *)
(* (plot_routes_on_map) and the feed orchestrator (analyze_gtfs_feeds).    *)
(*                                                                         *)
(* A loaded table is a record [columns, rows]; rows is the sequence of the *)
(* data frame's rows in file order.  A missing cell (NaN) of a numeric     *)
(* column is the empty tuple <<>>, a present one the 1-tuple <<v>>.        *)
(***************************************************************************)
EXTENDS Integers, Sequences, FiniteSets, TLC

\* ------------------------------------------------------------------ bounds
MaxRows == 3
MaxFeeds == 2
MaxListed == 3
MaxVisits == 2

\* ------------------------------------------------------------ value domains
TripIds == {1, 2}
StopSeqs == {1, 2, 3}
StopIds == {"A", "B", "C"}
RouteIds == {"R1", "R2"}
NoRoute == "NaN"
NaN == <<>>

required_files == <<"trips.txt", "stop_times.txt", "routes.txt", "stops.txt">>

Range(s) == {s[k] : k \in DOMAIN s}

\* A data frame: the columns of the file's header, and the rows.
Table(columns, rows) == [columns |-> columns, rows |-> rows]

\* The columns the code reads of each table.
TripsColumns == {"trip_id", "route_id"}
StopTimesColumns == {"trip_id", "stop_id", "stop_sequence"}
StopsColumns == {"stop_id", "stop_lat", "stop_lon"}

StopTimeRows == [trip_id : TripIds, stop_sequence : StopSeqs, stop_id : StopIds]
TripRows == [trip_id : TripIds, route_id : RouteIds]

\* ------------------------------------------------------- pandas primitives
\* The columns of pd.merge(left, right, on=key): the key once, every other
\* column of either frame, and a column that both frames have twice, under
\* the default suffixes: c_x for the left one and c_y for the right one.
MergeColumns(left, right, key) ==
    LET both == (left \cap right) \ {key}
    IN ((left \cup right) \ both)
          \cup {c \o "_x" : c \in both} \cup {c \o "_y" : c \in both}

\* pd.merge raises MergeError when a suffixed name is that of another column
\* of its frame; the right frames of this program are projections that hold
\* no such name, so only the left frame can clash.
MergeClash(left, right, key) ==
    \E c \in (left \cap right) \ {key} : (c \o "_x") \in left

\* pd.merge(left, trips[['trip_id','route_id']], on='trip_id', how='left'):
\* the left rows in their order; a left row with k matching right rows gives
\* k rows (in the right table's order), with none it gives one row whose
\* route_id is missing.
RECURSIVE MergeTrips(_, _)
MergeTrips(left, trips) ==
    IF left = <<>> THEN <<>>
    ELSE LET l == Head(left)
             m == SelectSeq(trips, LAMBDA r : r.trip_id = l.trip_id)
             one(rid) == l @@ [route_id |-> rid]
             out == IF m = <<>> THEN << one(NoRoute) >>
                    ELSE [k \in 1..Len(m) |-> one(m[k].route_id)]
         IN out \o MergeTrips(Tail(left), trips)

\* Mutant of KeyLeq: sort_values(by=['trip_id']), the second key forgotten.
KeyLeqTripOnly(a, b) == a.trip_id <= b.trip_id

\* The sort key of sort_values(by=['trip_id', 'stop_sequence']).
KeyLeq(a, b) ==
    \/ a.trip_id < b.trip_id
    \/ a.trip_id = b.trip_id /\ a.stop_sequence <= b.stop_sequence

\* Insert row r into the sorted sequence s behind every row whose key is
\* not greater (the lexsort pandas uses for several keys is stable).
RECURSIVE InsertSorted(_, _)
InsertSorted(s, r) ==
    IF s = <<>> THEN << r >>
    ELSE IF KeyLeq(Head(s), r) THEN << Head(s) >> \o InsertSorted(Tail(s), r)
    ELSE << r >> \o s

RECURSIVE SortValues(_)
SortValues(rows) ==
    IF rows = <<>> THEN <<>>
    ELSE InsertSorted(SortValues(SubSeq(rows, 1, Len(rows) - 1)), rows[Len(rows)])

\* The ascending sequence of the elements of a finite set of integers.
RECURSIVE SetToSortedSeq(_)
SetToSortedSeq(S) ==
    IF S = {} THEN <<>>
    ELSE LET m == CHOOSE x \in S : \A y \in S : x <= y
         IN << m >> \o SetToSortedSeq(S \ {m})

\* frame.groupby('trip_id'): one group per distinct trip_id, the groups in
\* ascending key order, each group's rows in the frame's order.
GroupBy(rows) ==
    LET keys == SetToSortedSeq({rows[k].trip_id : k \in DOMAIN rows})
    IN [g \in 1..Len(keys) |->
          [trip_id |-> keys[g],
           group |-> SelectSeq(rows, LAMBDA r : r.trip_id = keys[g])]]

\* ------------------------------------------------------- extract_segments
\* collections.Counter(): a function from keys to counts; no key at first.
Counter == <<>>

\* segments[stops] += 1
Increment(segments, stops) ==
    IF stops \in DOMAIN segments
    THEN [segments EXCEPT ![stops] = @ + 1]
    ELSE (stops :> 1) @@ segments

\* tuple(group['stop_id'])
StopTuple(group) == [k \in 1..Len(group) |-> group[k].stop_id]

RECURSIVE CountGroups(_, _)
CountGroups(groups, segments) ==
    IF groups = <<>> THEN segments
    ELSE CountGroups(Tail(groups), Increment(segments, StopTuple(Head(groups).group)))

\* The frame the loop of extract_segments runs over.
TripStopTimes(gtfs_files) ==
    SortValues(MergeTrips(gtfs_files["stop_times.txt"].rows,
                          gtfs_files["trips.txt"].rows))

\* Mutant of extract_segments: the loop runs over the trips listed in
\* trips.txt and looks up each one's stop_times rows.
extract_segments_per_listed_trip(gtfs_files) ==
    IF ~ ({"trips.txt", "stop_times.txt", "routes.txt"} \subseteq DOMAIN gtfs_files)
    THEN [kind |-> "Counter", segments |-> Counter, missing |-> TRUE]
    ELSE LET sorted == SortValues(gtfs_files["stop_times.txt"].rows)
             listed == SetToSortedSeq({gtfs_files["trips.txt"].rows[k].trip_id :
                                         k \in DOMAIN gtfs_files["trips.txt"].rows})
             groups == [g \in 1..Len(listed) |->
                          [trip_id |-> listed[g],
                           group |-> SelectSeq(sorted, LAMBDA r : r.trip_id = listed[g])]]
         IN [kind |-> "Counter", segments |-> CountGroups(groups, Counter),
             missing |-> FALSE]

\* The result of extract_segments.  kind "Counter": the Counter returned,
\* and whether the "Missing required file" diagnostic was printed (the
\* KeyError of a missing table is caught by the try of lines 32-38).  kind
\* "raise": an exception of lines 41-42, which are outside that try and
\* raise whatever the rows are: KeyError of trips[['trip_id','route_id']]
\* or of the merge when trips or stop_times lacks the column, and KeyError
\* of the projection of line 42 when the merged frame has no stop_sequence,
\* stop_id or route_id (a stop_times with a route_id of its own leaves the
\* merged frame with route_id_x and route_id_y only), MergeError of the
\* merge when the suffixed name is taken.
extract_segments(gtfs_files) ==
    IF ~ ({"trips.txt", "stop_times.txt", "routes.txt"} \subseteq DOMAIN gtfs_files)
    THEN [kind |-> "Counter", segments |-> Counter, missing |-> TRUE]
    ELSE LET trips == gtfs_files["trips.txt"].columns
             stop_times == gtfs_files["stop_times.txt"].columns
             merged == MergeColumns(stop_times, TripsColumns, "trip_id")
         IN IF ~ (TripsColumns \subseteq trips) \/ "trip_id" \notin stop_times
            THEN [kind |-> "raise", error |-> "KeyError"]
            ELSE IF MergeClash(stop_times, TripsColumns, "trip_id")
            THEN [kind |-> "raise", error |-> "MergeError"]
            ELSE IF ~ ({"trip_id", "stop_sequence", "stop_id", "route_id"}
                          \subseteq merged)
            THEN [kind |-> "raise", error |-> "KeyError"]
            ELSE [kind |-> "Counter",
                  segments |-> CountGroups(GroupBy(TripStopTimes(gtfs_files)),
                                           Counter),
                  missing |-> FALSE]

\* ----------------------------------------------------- plot_routes_on_map
\* pd.merge(stop_times_df, stops_df[['stop_id','stop_lat','stop_lon']],
\* on='stop_id', how='left'): as MergeTrips; a stop_id with no row in stops
\* gets missing coordinates.
RECURSIVE MergeStops(_, _)
MergeStops(left, stops) ==
    IF left = <<>> THEN <<>>
    ELSE LET l == Head(left)
             m == SelectSeq(stops, LAMBDA r : r.stop_id = l.stop_id)
             one(lat, lon) == l @@ [stop_lat |-> lat, stop_lon |-> lon]
             out == IF m = <<>> THEN << one(NaN, NaN) >>
                    ELSE [k \in 1..Len(m) |-> one(m[k].stop_lat, m[k].stop_lon)]
         IN out \o MergeStops(Tail(left), stops)

RECURSIVE SumCells(_)
SumCells(cells) ==
    IF cells = <<>> THEN 0 ELSE Head(cells)[1] + SumCells(Tail(cells))

\* Series.mean(): the mean of the cells that are present, as the exact
\* fraction num/den; NaN when none is present (also for an empty column).
Mean(column) ==
    LET present == SelectSeq(column, LAMBDA c : c # NaN)
    IN IF present = <<>> THEN NaN
       ELSE << [num |-> SumCells(present), den |-> Len(present)] >>

Column(rows, name) == [k \in 1..Len(rows) |-> rows[k][name]]

\* group[['stop_lat','stop_lon']].dropna().values.tolist()
Coordinates(group) ==
    LET kept == SelectSeq(group, LAMBDA r : r.stop_lat # NaN /\ r.stop_lon # NaN)
    IN [k \in 1..Len(kept) |-> << kept[k].stop_lat[1], kept[k].stop_lon[1] >>]

\* The loop over the trip groups: a group without coordinates is skipped
\* (its trip_id goes to the "Skipping trip" diagnostics), any other adds
\* one PolyLine to the map.
RECURSIVE DrawGroups(_, _)
DrawGroups(groups, map_obj) ==
    IF groups = <<>> THEN map_obj
    ELSE LET coordinates == Coordinates(Head(groups).group)
         IN DrawGroups(Tail(groups),
               IF coordinates = <<>>
               THEN [map_obj EXCEPT !.skipped = Append(@, Head(groups).trip_id)]
               ELSE [map_obj EXCEPT !.lines = Append(@, coordinates)])

\* folium.Map(location=map_center, ...): folium validates the location and
\* raises ValueError when a coordinate of it is NaN.
MapRaises(map_center) == map_center[1] = NaN \/ map_center[2] = NaN

\* Lines 70-97 of plot_routes_on_map, run once its preconditions hold: the
\* merges, the sort, the map centred on the mean stop, a line per trip.
\* Lines 74, 75 and 78 raise whatever the rows are: KeyError when stops
\* (stop_id), stop_times or trips lacks a column the selections and merges
\* read, and KeyError of the projection of line 78 when the merged frame
\* lacks one of its six columns (a stop_times with a stop_lat, stop_lon or
\* route_id of its own leaves only the suffixed copies), MergeError of a
\* merge when a suffixed name is taken.
RenderMap(gtfs_files) ==
    LET stops == gtfs_files["stops.txt"].columns
        stop_times == gtfs_files["stop_times.txt"].columns
        trips == gtfs_files["trips.txt"].columns
        with_stops == MergeColumns(stop_times, StopsColumns, "stop_id")
        with_trips == MergeColumns(with_stops, TripsColumns, "trip_id")
    IN
    IF ~ (StopsColumns \subseteq stops) \/ "stop_id" \notin stop_times
    THEN [kind |-> "raise", error |-> "KeyError"]
    ELSE IF MergeClash(stop_times, StopsColumns, "stop_id")
    THEN [kind |-> "raise", error |-> "MergeError"]
    ELSE IF ~ (TripsColumns \subseteq trips) \/ "trip_id" \notin with_stops
    THEN [kind |-> "raise", error |-> "KeyError"]
    ELSE IF MergeClash(with_stops, TripsColumns, "trip_id")
    THEN [kind |-> "raise", error |-> "MergeError"]
    ELSE IF ~ ({"trip_id", "stop_sequence", "stop_id", "stop_lat", "stop_lon",
                "route_id"} \subseteq with_trips)
    THEN [kind |-> "raise", error |-> "KeyError"]
    ELSE
    LET stops_df == gtfs_files["stops.txt"].rows
        merged == MergeTrips(MergeStops(gtfs_files["stop_times.txt"].rows, stops_df),
                             gtfs_files["trips.txt"].rows)
        trip_stop_times == SortValues(merged)
        map_center == << Mean(Column(stops_df, "stop_lat")),
                         Mean(Column(stops_df, "stop_lon")) >>
    IN IF MapRaises(map_center) THEN [kind |-> "raise", error |-> "ValueError"]
       ELSE [kind |-> "Map",
             map |-> DrawGroups(GroupBy(trip_stop_times),
                        [location |-> << map_center[1][1], map_center[2][1] >>,
                         lines |-> <<>>, skipped |-> <<>>])]

\* Mutant of plot_routes_on_map: the tables are taken from the dictionary
\* without the membership tests, so a missing one raises KeyError.
plot_routes_on_map_unguarded(gtfs_files) ==
    IF ~ ({"stops.txt", "trips.txt", "stop_times.txt"} \subseteq DOMAIN gtfs_files)
    THEN [kind |-> "raise", error |-> "KeyError"]
    ELSE IF ~ ({"stop_lat", "stop_lon"} \subseteq gtfs_files["stops.txt"].columns)
    THEN [kind |-> "None"]
    ELSE RenderMap(gtfs_files)

\* The result of plot_routes_on_map: kind "None" (a precondition failed and
\* a diagnostic was printed), "raise" (an exception left the function) or
\* "Map" (the map object, with the lines drawn and the trips skipped).
plot_routes_on_map(gtfs_files) ==
    IF "stops.txt" \notin DOMAIN gtfs_files
    THEN [kind |-> "None"]
    ELSE IF ~ ({"stop_lat", "stop_lon"} \subseteq gtfs_files["stops.txt"].columns)
    THEN [kind |-> "None"]
    ELSE IF ~ ({"trips.txt", "stop_times.txt"} \subseteq DOMAIN gtfs_files)
    THEN [kind |-> "None"]
    ELSE RenderMap(gtfs_files)

\* ------------------------------------------------------------------ state
VARIABLES
    gtfs_files,        \* the table set handed to the two analyses
    segments,          \* <<>> or << result of extract_segments >>
    prev_segments,     \* <<>> or << the Counter before the rows were reordered,
                       \*            and whether a row moved >>
    plotted,           \* <<>> or << result of plot_routes_on_map >>
    gtfs_directories,  \* the list analyze_gtfs_feeds is run on
    next_feed,         \* index of the feed the loop takes next
    feeds,             \* per feed taken so far: what was loaded, what came of it
    saved,             \* the files written: file name -> index of the feed
    status             \* "running", "returned" or "raised"

vars == << gtfs_files, segments, prev_segments, plotted,
           gtfs_directories, next_feed, feeds, saved, status >>

tableVars == << gtfs_files, segments, prev_segments, plotted >>
runVars == << gtfs_directories, next_feed, feeds, saved, status >>

RoutesTable == Table({"route_id"}, << [route_id |-> "R1"], [route_id |-> "R2"] >>)

Lats == {NaN, << 10 >>}
Lons == {NaN, << 20 >>, << 21 >>}
StopRows == [stop_id : StopIds, stop_lat : Lats, stop_lon : Lons]

\* Rows read so far from trips.txt, stop_times.txt and stops.txt.
RowsOf(g, name) == IF name \in DOMAIN g THEN Len(g[name].rows) ELSE 0
RowsRead(g) == RowsOf(g, "trips.txt") + RowsOf(g, "stop_times.txt") + RowsOf(g, "stops.txt")

Unanalysed == segments = <<>> /\ plotted = <<>>

NoRun ==
    /\ gtfs_directories = <<>>
    /\ next_feed = 1
    /\ feeds = <<>>
    /\ saved = <<>>
    /\ status = "returned"

\* ---------------------------------------------- reading a feed's tables
\* The row pd.read_csv makes of a line under the table's header: a cell for
\* each column of the header, whatever the columns are; the cells of the
\* columns the code never reads are all alike.
CsvRow(columns, row) ==
    [c \in columns |-> IF c \in DOMAIN row THEN row[c] ELSE ""]

\* pd.read_csv appends one more row of stop_times.txt.
ReadStopTime ==
    /\ Unanalysed
    /\ "stop_times.txt" \in DOMAIN gtfs_files
    /\ RowsRead(gtfs_files) < MaxRows
    /\ \E row \in StopTimeRows :
          gtfs_files' = [gtfs_files EXCEPT !["stop_times.txt"].rows =
                            Append(@, CsvRow(gtfs_files["stop_times.txt"].columns, row))]
    /\ UNCHANGED << segments, prev_segments, plotted, runVars >>

\* One more row of trips.txt; nothing keeps a trip_id from coming twice.
ReadTrip ==
    /\ Unanalysed
    /\ "trips.txt" \in DOMAIN gtfs_files
    /\ RowsRead(gtfs_files) < MaxRows
    /\ \E row \in TripRows :
          gtfs_files' = [gtfs_files EXCEPT !["trips.txt"].rows =
                            Append(@, CsvRow(gtfs_files["trips.txt"].columns, row))]
    /\ UNCHANGED << segments, prev_segments, plotted, runVars >>

\* One more row of stops.txt; nothing keeps a stop_id from coming twice.
ReadStop ==
    /\ Unanalysed
    /\ "stops.txt" \in DOMAIN gtfs_files
    /\ RowsRead(gtfs_files) < MaxRows
    /\ \E row \in StopRows :
          gtfs_files' = [gtfs_files EXCEPT !["stops.txt"].rows =
                            Append(@, CsvRow(gtfs_files["stops.txt"].columns, row))]
    /\ UNCHANGED << segments, prev_segments, plotted, runVars >>

\* ------------------------------------------------ applying the analyses
ExtractSegments ==
    /\ segments = <<>>
    /\ segments' = << extract_segments(gtfs_files) >>
    /\ UNCHANGED << gtfs_files, prev_segments, plotted, runVars >>

\* The rows of a table in another order: row k of the result is row p[k].
RowOrders(n) == {p \in [1..n -> 1..n] : \A i, j \in 1..n : p[i] = p[j] => i = j}
Permute(rows, p) == [k \in 1..Len(rows) |-> rows[p[k]]]

\* p keeps each trip's stop_sequence order: two rows of one trip with the
\* same stop_sequence stay in their relative order.
KeepsTripOrder(rows, p) ==
    \A i, j \in 1..Len(rows) :
        (/\ i < j
         /\ rows[p[i]].trip_id = rows[p[j]].trip_id
         /\ rows[p[i]].stop_sequence = rows[p[j]].stop_sequence) => p[i] < p[j]

\* The same feed with its stop_times and trips rows in another order, and
\* extract_segments run again on it.
Reorder ==
    /\ segments # <<>>
    /\ segments[1].kind = "Counter"
    /\ prev_segments = <<>>
    /\ plotted = <<>>
    /\ {"trips.txt", "stop_times.txt"} \subseteq DOMAIN gtfs_files
    /\ \E p \in RowOrders(Len(gtfs_files["stop_times.txt"].rows)),
          q \in RowOrders(Len(gtfs_files["trips.txt"].rows)) :
          /\ KeepsTripOrder(gtfs_files["stop_times.txt"].rows, p)
          /\ gtfs_files' = [gtfs_files EXCEPT
                 !["stop_times.txt"].rows = Permute(@, p),
                 !["trips.txt"].rows = Permute(@, q)]
    /\ prev_segments' = << [segments |-> segments[1].segments,
                             moved |-> gtfs_files' # gtfs_files] >>
    /\ segments' = << extract_segments(gtfs_files') >>
    /\ UNCHANGED << plotted, runVars >>

\* -------------------------------------------- specification: aggregation
\* A feed with all four tables; trips.txt and stop_times.txt are read row
\* by row (stops.txt, which extract_segments never reads, stays empty), then
\* the segments are extracted, and again after reordering.
InitSegments ==
    /\ gtfs_files = [name \in Range(required_files) |->
           CASE name = "trips.txt" -> Table(TripsColumns, <<>>)
             [] name = "stop_times.txt" -> Table(StopTimesColumns, <<>>)
             [] name = "routes.txt" -> RoutesTable
             [] name = "stops.txt" -> Table(StopsColumns, <<>>)]
    /\ segments = <<>>
    /\ prev_segments = <<>>
    /\ plotted = <<>>
    /\ NoRun

NextSegments == ReadStopTime \/ ReadTrip \/ ExtractSegments \/ Reorder

SpecSegments == InitSegments /\ [][NextSegments]_vars

\* ------------------------------------------- specification: trip listings
\* extract_segments applied to a complete feed whose trips.txt and
\* stop_times.txt are any tables of up to MaxListed and MaxVisits rows: a
\* trip may be listed on several rows of trips.txt and have several rows of
\* stop_times.txt at once.
SeqsUpTo(S, n) == UNION {[1..k -> S] : k \in 0..n}

InitListings ==
    /\ \E trips \in SeqsUpTo(TripRows, MaxListed),
          stop_times \in SeqsUpTo(StopTimeRows, MaxVisits) :
          gtfs_files = [name \in Range(required_files) |->
             CASE name = "trips.txt" -> Table(TripsColumns, trips)
               [] name = "stop_times.txt" -> Table(StopTimesColumns, stop_times)
               [] name = "routes.txt" -> RoutesTable
               [] name = "stops.txt" -> Table(StopsColumns, <<>>)]
    /\ segments = <<>>
    /\ prev_segments = <<>>
    /\ plotted = <<>>
    /\ NoRun

NextListings == ExtractSegments

SpecListings == InitListings /\ [][NextListings]_vars

\* ---------------------------------------------- specification: rendering
\* A feed with any of the four tables loaded, each of trips, stop_times and
\* stops with all its columns or lacking one the code reads, stop_times
\* also with a column more that a merged table has too; the tables are read
\* row by row, then both analyses are applied to the table set.
Headers ==
    [ trips : {TripsColumns, {"trip_id"}},
      stop_times : {StopTimesColumns, {"trip_id", "stop_sequence"},
                    StopTimesColumns \cup {"route_id"},
                    StopTimesColumns \cup {"stop_lat"},
                    StopTimesColumns \cup {"route_id", "route_id_x"}},
      stops : {StopsColumns, {"stop_id"}, {"stop_lat", "stop_lon"}} ]

EmptyTable(name, header) ==
    CASE name = "trips.txt" -> Table(header.trips, <<>>)
      [] name = "stop_times.txt" -> Table(header.stop_times, <<>>)
      [] name = "routes.txt" -> RoutesTable
      [] name = "stops.txt" -> Table(header.stops, <<>>)

InitTables ==
    /\ \E loaded \in SUBSET Range(required_files), header \in Headers :
          gtfs_files = [name \in loaded |-> EmptyTable(name, header)]
    /\ segments = <<>>
    /\ prev_segments = <<>>
    /\ plotted = <<>>
    /\ NoRun

Analyse ==
    /\ Unanalysed
    /\ segments' = << extract_segments(gtfs_files) >>
    /\ plotted' = << plot_routes_on_map(gtfs_files) >>
    /\ UNCHANGED << gtfs_files, prev_segments, runVars >>

NextTables == ReadStopTime \/ ReadTrip \/ ReadStop \/ Analyse

SpecTables == InitTables /\ [][NextTables]_vars

\* ------------------------------------------------- load_gtfs_from_directory
\* What a directory holds for one required file: no such file, a file that
\* pd.read_csv raises on, or a file that parses to a table.
Absent == [exists |-> FALSE, parses |-> FALSE, table |-> Table({}, <<>>)]
Unreadable == [exists |-> TRUE, parses |-> FALSE, table |-> Table({}, <<>>)]
Parsed(table) == [exists |-> TRUE, parses |-> TRUE, table |-> table]

\* The dictionary load_gtfs_from_directory returns: the files that exist
\* and parse; for the others only a message is printed.
load_gtfs_from_directory(directory_files) ==
    [file_name \in {n \in Range(required_files) :
                       directory_files[n].exists /\ directory_files[n].parses}
        |-> directory_files[file_name].table]

\* "Warning: Missing some GTFS files" is printed.
Incomplete(files) == Cardinality(DOMAIN files) # Len(required_files)

\* --------------------------------------------------- analyze_gtfs_feeds
\* os.path.basename of a directory given as its components (the path split
\* at "/"): the text after the last separator.
Basename(directory) == directory[Len(directory)]

MapFilename(directory) == "routes_map_" \o Basename(directory) \o ".html"

\* The feeds a run may be given, and what their directories may hold.
Directories == { << "feeds", "muni" >>, << "feeds", "vta" >>, << "backup", "muni" >> }

SampleTrips ==
    Table(TripsColumns, << [trip_id |-> 1, route_id |-> "R1"],
                           [trip_id |-> 2, route_id |-> "R2"] >>)
SampleTripsNoRoute ==
    Table({"trip_id"}, << [trip_id |-> 1], [trip_id |-> 2] >>)
SampleStopTimes ==
    Table(StopTimesColumns,
          << [trip_id |-> 1, stop_sequence |-> 2, stop_id |-> "A"],
             [trip_id |-> 1, stop_sequence |-> 1, stop_id |-> "B"],
             [trip_id |-> 2, stop_sequence |-> 1, stop_id |-> "C"] >>)
SampleStopTimesWithRoute ==
    Table(StopTimesColumns \cup {"route_id"},
          << [trip_id |-> 1, stop_sequence |-> 1, stop_id |-> "A", route_id |-> "R1"] >>)
SampleStops ==
    { Table(StopsColumns, << [stop_id |-> "A", stop_lat |-> << 10 >>, stop_lon |-> << 20 >>],
                             [stop_id |-> "B", stop_lat |-> << 10 >>, stop_lon |-> << 21 >>] >>),
      Table(StopsColumns, << [stop_id |-> "A", stop_lat |-> NaN, stop_lon |-> NaN] >>),
      Table({"stop_id"}, <<>>) }

FileStates(tables) == {Absent, Unreadable} \cup {Parsed(t) : t \in tables}

DirectoryFiles ==
    { [name \in Range(required_files) |->
         CASE name = "trips.txt" -> t
           [] name = "stop_times.txt" -> st
           [] name = "routes.txt" -> r
           [] name = "stops.txt" -> s] :
      t \in FileStates({SampleTrips, SampleTripsNoRoute}), st \in FileStates({SampleStopTimes, SampleStopTimesWithRoute}),
      r \in FileStates({RoutesTable}), s \in FileStates(SampleStops) }

NoTables ==
    /\ gtfs_files = <<>>
    /\ segments = <<>>
    /\ prev_segments = <<>>
    /\ plotted = <<>>

Init ==
    /\ NoTables
    /\ \E n \in 0..MaxFeeds : gtfs_directories \in [1..n -> Directories]
    /\ next_feed = 1
    /\ feeds = <<>>
    /\ saved = <<>>
    /\ status = "running"

\* One pass of the loop body for the next directory of the list: what the
\* directory holds and whether the file system takes the write are the
\* environment's.  An exception of plot_routes_on_map or of map_obj.save is
\* not caught and ends the run.
ProcessFeed ==
    /\ status = "running"
    /\ next_feed <= Len(gtfs_directories)
    /\ \E directory_files \in DirectoryFiles, write_ok \in BOOLEAN :
          LET directory == gtfs_directories[next_feed]
              gtfs_data == load_gtfs_from_directory(directory_files)
              skip == DOMAIN gtfs_data = {}
              map_obj == IF skip THEN [kind |-> "not run"]
                         ELSE plot_routes_on_map(gtfs_data)
              save == IF map_obj.kind # "Map" THEN "not run"
                      ELSE IF write_ok THEN "ok" ELSE "OSError"
              raised == map_obj.kind = "raise" \/ save = "OSError"
          IN /\ feeds' = Append(feeds, [directory |-> directory,
                                         loaded |-> DOMAIN gtfs_data,
                                         incomplete |-> Incomplete(gtfs_data),
                                         plot |-> map_obj.kind,
                                         save |-> save])
             /\ saved' = IF save = "ok"
                          THEN (MapFilename(directory) :> next_feed) @@ saved
                          ELSE saved
             /\ status' = IF raised THEN "raised" ELSE "running"
             /\ next_feed' = IF raised THEN next_feed ELSE next_feed + 1
    /\ UNCHANGED << gtfs_directories, tableVars >>

\* The list is exhausted: analyze_gtfs_feeds returns.
Return ==
    /\ status = "running"
    /\ next_feed > Len(gtfs_directories)
    /\ status' = "returned"
    /\ UNCHANGED << gtfs_directories, next_feed, feeds, saved, tableVars >>

Next == ProcessFeed \/ Return

Spec == Init /\ [][Next]_vars

\* ================================================================ claims
\* What the claims speak of, read off the state.
Extracted ==
    /\ segments # <<>>
    /\ segments[1].kind = "Counter"
    /\ ~ segments[1].missing
Aggregate == segments[1].segments
StopTimes == gtfs_files["stop_times.txt"].rows
Trips == gtfs_files["trips.txt"].rows
Stops == gtfs_files["stops.txt"].rows
TripsOf(rows) == {rows[k].trip_id : k \in DOMAIN rows}

\* The tuple the loop of extract_segments builds for trip t.
TripSegment(g, t) ==
    LET groups == GroupBy(TripStopTimes(g))
        at == CHOOSE k \in DOMAIN groups : groups[k].trip_id = t
    IN StopTuple(groups[at].group)

\* seg lists the stop_id of every stop_times row of trip t exactly once,
\* in an order along which stop_sequence never decreases.
IsOrderedStopsOf(seg, rows, t) ==
    LET idx == {k \in DOMAIN rows : rows[k].trip_id = t}
    IN /\ Len(seg) = Cardinality(idx)
       /\ \E b \in [1..Len(seg) -> idx] :
             /\ \A i, j \in 1..Len(seg) : b[i] = b[j] => i = j
             /\ \A k \in 1..Len(seg) : seg[k] = rows[b[k]].stop_id
             /\ \A k \in 1..(Len(seg) - 1) :
                   rows[b[k]].stop_sequence <= rows[b[k + 1]].stop_sequence

\* The number of rows the merge makes of one stop_times row of trip t: one
\* per row of trips.txt with that trip_id, one when there is none.
Listings(t) ==
    LET k == Cardinality({i \in DOMAIN Trips : Trips[i].trip_id = t})
    IN IF k = 0 THEN 1 ELSE k

\* The tuple with each element of base k times in a row.
Repeated(base, k) == [j \in 1..(k * Len(base)) |-> base[((j - 1) \div k) + 1]]

\* C4 as claimed: for every trip_id present in stop_times, the segment
\* derived for the trip is the tuple of the trip's stop_id values in
\* ascending stop_sequence order, whatever the rows of the tables are.
C4_AsClaimed ==
    Extracted =>
        \A t \in TripsOf(StopTimes) :
            /\ IsOrderedStopsOf(TripSegment(gtfs_files, t), StopTimes, t)
            /\ TripSegment(gtfs_files, t) \in DOMAIN Aggregate

\* The same feed with every listed trip on the route f gives it.
Rerouted(g, f) ==
    LET rows == g["trips.txt"].rows
    IN [g EXCEPT !["trips.txt"].rows =
          [k \in 1..Len(rows) |-> [trip_id |-> rows[k].trip_id,
                                    route_id |-> f[rows[k].trip_id]]]]

\* The ordered stop_id tuple of trip t: the stop_id of its stop_times rows
\* by ascending stop_sequence, file order among equals.
OrderedStops(t) ==
    LET rows == SelectSeq(SortValues(StopTimes), LAMBDA r : r.trip_id = t)
    IN [k \in 1..Len(rows) |-> rows[k].stop_id]

\* C5 as claimed: two trips of stop_times are counted under the same key if
\* and only if their ordered stop_id tuples are identical, the count of a
\* trip's key is the number of trips with the trip's tuple (each trip group
\* adds 1 to one count), and route_id is no part of the key: the result is
\* the same whatever routes the rows of trips carry.
C5_AsClaimed ==
    Extracted =>
        /\ \A t, u \in TripsOf(StopTimes) :
              (TripSegment(gtfs_files, t) = TripSegment(gtfs_files, u))
                 <=> (OrderedStops(t) = OrderedStops(u))
        /\ \A t \in TripsOf(StopTimes) :
              /\ TripSegment(gtfs_files, t) \in DOMAIN Aggregate
              /\ Aggregate[TripSegment(gtfs_files, t)] =
                    Cardinality({u \in TripsOf(StopTimes) :
                                   OrderedStops(u) = OrderedStops(t)})
        /\ \A f \in [TripIds -> RouteIds] :
              extract_segments(Rerouted(gtfs_files, f)).segments = Aggregate

Reverse(s) == [k \in 1..Len(s) |-> s[Len(s) + 1 - k]]

\* C6: reordering the rows of stop_times and trips in a way that keeps each
\* trip's stop_sequence order leaves the result as it was, and counting the
\* trip groups in the opposite order gives the same result.
C6_OrderIndependent ==
    /\ (Extracted /\ prev_segments # <<>>) => Aggregate = prev_segments[1].segments
    /\ Extracted =>
          CountGroups(Reverse(GroupBy(TripStopTimes(gtfs_files))), Counter) = Aggregate

\* Rows were moved, of a feed with two trip groups and a trip whose rows
\* are not in stop_sequence order.
C6_Witness ==
    /\ Extracted
    /\ prev_segments # <<>>
    /\ prev_segments[1].moved
    /\ TripsOf(StopTimes) = {1, 2}
    /\ \E i, j \in DOMAIN StopTimes :
          /\ i < j
          /\ StopTimes[i].trip_id = StopTimes[j].trip_id
          /\ StopTimes[i].stop_sequence > StopTimes[j].stop_sequence

\* The trips listed in trips.txt that have no row in stop_times.txt.
IdleTrips == TripsOf(Trips) \ TripsOf(StopTimes)

RECURSIVE SumCounts(_, _)
SumCounts(c, keys) ==
    IF keys = {} THEN 0
    ELSE LET key == CHOOSE x \in keys : TRUE
         IN c[key] + SumCounts(c, keys \ {key})

\* C7 as claimed: each trip listed in trips with no stop_times row adds 1
\* to the count of the empty tuple.
C7_AsClaimed ==
    (Extracted /\ IdleTrips # {}) =>
        /\ << >> \in DOMAIN Aggregate
        /\ Aggregate[<< >>] = Cardinality(IdleTrips)

\* C7 amended: a trip listed in trips with no stop_times row contributes
\* nothing: the empty tuple is never a key, and the counts add up to the
\* number of trip_id values that occur in stop_times.
C7_IdleTripsContributeNothing ==
    Extracted =>
        /\ << >> \notin DOMAIN Aggregate
        /\ SumCounts(Aggregate, DOMAIN Aggregate) = Cardinality(TripsOf(StopTimes))

\* Segments were extracted from a feed that lists a trip without stop_times.
C7_Witness ==
    /\ Extracted
    /\ IdleTrips # {}
    /\ StopTimes # <<>>

\* ---- the feed orchestrator
Terminated == status # "running"
AllFour == Range(required_files)

\* The loaded set lacks a table the renderer needs, or holds none at all:
\* the feed fails for an incomplete load or a missing table.
LacksNeededTable(loaded) ==
    ~ ({"stops.txt", "trips.txt", "stop_times.txt"} \subseteq loaded)

\* C1: a feed that fails for an incomplete load or a missing table fails
\* quietly (no map, nothing saved, no exception), and once the run has ended
\* the feed after it has been loaded and rendered, and its artifact is
\* saved when it yields a map that the file system takes.
C1_MissingTablesDoNotStopLaterFeeds ==
    \A i \in DOMAIN feeds :
        LacksNeededTable(feeds[i].loaded) =>
            /\ feeds[i].plot \in {"not run", "None"}
            /\ feeds[i].save = "not run"
            /\ (Terminated /\ i < Len(gtfs_directories)) =>
                  /\ i + 1 \in DOMAIN feeds
                  /\ feeds[i + 1].directory = gtfs_directories[i + 1]
                  /\ feeds[i + 1].save = "ok" =>
                        MapFilename(gtfs_directories[i + 1]) \in DOMAIN saved

\* [A, B] has run, A without stops.txt, B complete: B's artifact is saved.
C1_Witness ==
    /\ status = "returned"
    /\ Len(gtfs_directories) = 2
    /\ Len(feeds) = 2
    /\ feeds[1].loaded = AllFour \ {"stops.txt"}
    /\ feeds[2].loaded = AllFour
    /\ feeds[2].save = "ok"
    /\ saved = (MapFilename(gtfs_directories[2]) :> 2)

\* C2 as claimed: a feed whose load result lacks one of the four tables is
\* skipped by the later stages: it is never rendered to a map and saved.
C2_AsClaimed ==
    \A i \in DOMAIN feeds :
        feeds[i].loaded # AllFour =>
            /\ feeds[i].incomplete
            /\ ~ (feeds[i].plot = "Map" /\ feeds[i].save = "ok")

\* C9 as claimed: when saving the map of a feed fails, every feed after it
\* in the list is still processed.
C9_AsClaimed ==
    Terminated =>
        \A i \in DOMAIN feeds :
            (feeds[i].save = "OSError" /\ i < Len(gtfs_directories)) =>
                i + 1 \in DOMAIN feeds

Distinct(list) == \A i, j \in DOMAIN list : list[i] = list[j] => i = j

\* C10 as claimed: after a run over distinct directories that returned,
\* every feed that yielded a map has its own artifact, named after its
\* directory's basename and holding its map, and every artifact is that of
\* a feed that yielded a map.
C10_AsClaimed ==
    (status = "returned" /\ Distinct(gtfs_directories)) =>
        /\ \A i \in DOMAIN feeds :
              feeds[i].plot = "Map" =>
                  /\ MapFilename(feeds[i].directory) \in DOMAIN saved
                  /\ saved[MapFilename(feeds[i].directory)] = i
        /\ \A name \in DOMAIN saved : feeds[saved[name]].plot = "Map"

\* ---- the two analyses on one table set
Analysed == segments # <<>> /\ plotted # <<>>
Loaded == DOMAIN gtfs_files

\* The preconditions of plot_routes_on_map hold, the three tables it reads
\* have the columns it reads, and stop_times has none of the columns that
\* the merges bring in.
Renderable ==
    /\ {"stops.txt", "trips.txt", "stop_times.txt"} \subseteq Loaded
    /\ StopsColumns \subseteq gtfs_files["stops.txt"].columns
    /\ StopTimesColumns \subseteq gtfs_files["stop_times.txt"].columns
    /\ TripsColumns \subseteq gtfs_files["trips.txt"].columns
    /\ gtfs_files["stop_times.txt"].columns
          \cap {"stop_lat", "stop_lon", "route_id"} = {}

\* C3 as claimed: without routes but with trips, stop_times and a stops
\* table that lists stops (with the coordinate columns) plot_routes_on_map
\* returns a map; whenever any of trips, stop_times or routes is absent
\* extract_segments returns an empty aggregate and reports the missing table.
C3_AsClaimed ==
    Analysed =>
        /\ (Renderable /\ "routes.txt" \notin Loaded /\ Stops # <<>>) =>
              plotted[1].kind = "Map"
        /\ ~ ({"trips.txt", "stop_times.txt", "routes.txt"} \subseteq Loaded) =>
              segments[1] = [kind |-> "Counter", segments |-> Counter,
                             missing |-> TRUE]

\* The (lat, lon) points of the stop_times rows: for each row the rows of
\* stops with its stop_id that have both coordinates, in the order of stops.
RECURSIVE PointsOf(_)
PointsOf(rows) ==
    IF rows = <<>> THEN <<>>
    ELSE LET at == SelectSeq(Stops, LAMBDA x : /\ x.stop_id = Head(rows).stop_id
                                                /\ x.stop_lat # NaN
                                                /\ x.stop_lon # NaN)
         IN [k \in 1..Len(at) |-> << at[k].stop_lat[1], at[k].stop_lon[1] >>]
            \o PointsOf(Tail(rows))

\* The points of trip t: those of its stop_times rows in stop_sequence order
\* (file order among equals), the rows with a missing coordinate left out,
\* each point once per row of trips that lists the trip.
TripPoints(t) ==
    Repeated(PointsOf(SelectSeq(SortValues(StopTimes), LAMBDA r : r.trip_id = t)),
             Listings(t))

\* C8 as claimed: for a feed that has stops and trips, a map is returned
\* whatever coordinates are missing; its lines are the point lists of the
\* trips that keep a point, in stop_sequence order, and the trips left
\* without a point are skipped.
C8_AsClaimed ==
    (Analysed /\ Renderable /\ StopTimes # <<>> /\ Stops # <<>>) =>
        /\ plotted[1].kind = "Map"
        /\ Range(plotted[1].map.lines) =
              {TripPoints(t) : t \in TripsOf(StopTimes)} \ {<<>>}
        /\ Range(plotted[1].map.skipped) =
              {t \in TripsOf(StopTimes) : TripPoints(t) = <<>>}

=============================================================================
